---- MODULE Spec2Model ----
(***************************************************************************)
(* The Decision Gate of the checkout page (src/utils/behaviorTracking.js,  *)
(* component Checkout): React state, the document listeners and the        *)
(* periodic timer installed by the mount effect, the scoring calls issued  *)
(* by runAIAnalysis and still pending, and handleSubmit.                   *)
(*                                                                         *)
(* Numbers: a confidence or trust score in [0,1] is kept in hundredths     *)
(* (0.7 is 70).  A field absent from the JSON response is Undefined, the   *)
(* initial securityScore is Null.  Text inputs are "" or a non-empty       *)
(* string.  The payload of a scoring call is kept as the five counters it  *)
(* copies from behaviorData; the fields derived from Date.now() and        *)
(* Math.random() are left out.                                             *)
(***************************************************************************)
EXTENDS Integers, FiniteSets, Sequences, TLC

\* ---------------------------------------------------------------- bounds
MaxEvents == 1      \* interaction events handled in one session
MaxCalls  == 2      \* scoring calls issued in one session

\* ------------------------------------------------------------- constants
TrustedThreshold    == 70
SuspiciousThreshold == 30
Undefined == 0 - 1
Null      == 0 - 2

Statuses == {"analyzing", "passed", "flagged"}
Methods  == {"credit-card", "bank-transfer", "ewallet"}
Fields   == {"cardNumber", "cardName", "expiryDate", "cvv",
             "bankName", "virtualAccount", "ewalletPhone"}
Values   == {"", "x"}
EventTypes == {"click", "keydown", "mousemove", "scroll"}

\* The inputs rendered for each payment method.
RenderedFields(m) ==
    CASE m = "credit-card"   -> {"cardNumber", "cardName", "expiryDate", "cvv"}
      [] m = "bank-transfer" -> {"bankName"}
      [] m = "ewallet"       -> {"ewalletPhone"}

\* useState initial values.
InitBehaviorData ==
    [clicks |-> 0, keystrokes |-> 0, mouseMovements |-> 0,
     scrollEvents |-> 0, formInteractions |-> 0]
InitPaymentInfo == [f \in Fields |-> ""]

\* ----------------------------------------------- scoring responses
\* A call ends in one of: fetch (or response.json()) rejects, a response
\* with ok = false, or an ok response carrying a result object.
Predictions == {"human", "bot", "none"}
Result(p, c, t) == [prediction |-> p, confidence |-> c, trust_score |-> t]
GateResults ==
    { Result("human", 80, Undefined), Result("bot", 20, Undefined),
      Result("none", 50, Undefined) }
AllResults ==
    { Result(p, c, t) : p \in Predictions,
                        c \in {Undefined, 0, 20, 30, 50, 70, 80, 100},
                        t \in {Undefined, 60} }
NoResult == Result("none", Undefined, Undefined)

\* JavaScript truthiness of a numeric field that may be absent.
Truthy(v) == v # Undefined /\ v # Null /\ v # 0

\* result.confidence || result.trust_score || 0
ScoreOf(result) ==
    IF Truthy(result.confidence) THEN result.confidence
    ELSE IF Truthy(result.trust_score) THEN result.trust_score
    ELSE 0

\* The if / else-if / else of runAIAnalysis on an ok response.
VerdictOf(result) ==
    IF result.prediction = "human"
       \/ (Truthy(result.confidence) /\ result.confidence > TrustedThreshold)
    THEN "passed"
    ELSE IF result.prediction = "bot"
            \/ (Truthy(result.confidence) /\ result.confidence < SuspiciousThreshold)
    THEN "flagged"
    ELSE "analyzing"

\* The state written by the catch block.
CatchStatusFailOpen(before) == "passed"
CatchStatus(before) == "analyzing"

\* ----------------------------------------------------------------- state
VARIABLES
    aiSecurityStatus,   \* useState('analyzing')
    securityScore,      \* useState(null)
    behaviorData,       \* useState({clicks: 0, ...})
    paymentMethod,      \* useState('credit-card')
    paymentInfo,        \* useState({cardNumber: '', ...})
    mounted,            \* the component is mounted
    listeners,          \* document listeners attached by the effect
    timerActive,        \* the setInterval of the effect is live
    tickClosure,        \* behaviorData seen by the runAIAnalysis the timer holds
    inflight,           \* scoring calls issued and not yet settled
    nextCallId,         \* id of the next call issued
    lastCall,           \* the call settled last, and how
    alertMsg,           \* the last alert() shown by handleSubmit
    completions         \* securityCheck arguments passed to onComplete

\* The BehaviorTracker of the session and the clock it reads.
VARIABLES
    now,                \* Date.now()
    tracker,            \* the fields of the BehaviorTracker object
    exported,           \* what the operation just performed returned
    moveLog,            \* every sample trackMouseMovement was given, in order
    hoverOpenedAt,      \* time of the begin that opened the current hover
    hoverExpected,      \* sum of the hover intervals completed so far
    endsSinceStart      \* endSeatHover calls since the last startSeatHover

\* The ingestion endpoint (app/api/save-training-data/route.js).
VARIABLES
    request,            \* the body of the request handled last
    store,              \* the rows of raw_train_data, in insertion order
    responses           \* the responses returned, in order

recorderVars == <<now, tracker, exported, moveLog, hoverOpenedAt,
                  hoverExpected, endsSinceStart>>
ingestVars == <<request, store, responses>>

vars == <<aiSecurityStatus, securityScore, behaviorData, paymentMethod,
          paymentInfo, mounted, listeners, timerActive, tickClosure,
          inflight, nextCallId, lastCall, alertMsg, completions,
          now, tracker, exported, moveLog, hoverOpenedAt, hoverExpected,
          endsSinceStart, request, store, responses>>

checkoutVars == <<aiSecurityStatus, securityScore, behaviorData,
                  paymentMethod, paymentInfo, mounted, listeners,
                  timerActive, tickClosure, inflight, nextCallId, lastCall,
                  alertMsg, completions>>

gateVars == <<aiSecurityStatus, securityScore>>
formVars == <<paymentMethod, paymentInfo>>
effectVars == <<mounted, listeners, timerActive, tickClosure>>

TotalEvents(b) ==
    b.clicks + b.keystrokes + b.mouseMovements + b.scrollEvents
    + b.formInteractions

\* The keys of aiPayload.behaviorData.
PayloadKeys ==
    {"session_duration", "clicks", "keystrokes", "mouse_movements",
     "scroll_events", "form_interactions", "time_on_page", "tab_switches",
     "copy_paste_events", "right_click_events", "form_completion_time",
     "typing_patterns", "click_patterns", "mouse_velocity",
     "scroll_behavior"}

\* The counters runAIAnalysis copies into aiPayload.behaviorData.
PayloadOf(b) ==
    [clicks |-> b.clicks, keystrokes |-> b.keystrokes,
     mouse_movements |-> b.mouseMovements, scroll_events |-> b.scrollEvents,
     form_interactions |-> b.formInteractions]

\* ------------------------------------------------ BehaviorTracker
\* The constructor, run when the clock reads t.
Construct(t) ==
    [sessionStartTime |-> t,
     ktpKeystrokeData |-> <<>>,
     fieldEditCounts |-> <<>>,
     mousePositions |-> <<>>,
     seatHoverStartTime |-> Null,
     seatHesitationTime |-> 0,
     totalClicks |-> 0,
     lastMousePosition |-> [x |-> 0, y |-> 0]]

NoExport == <<>>

\* A request body: the user_id (absent, or one string) and the fields sent.
NoRequest == [parses |-> FALSE, user_id |-> <<>>, fields |-> <<>>]

\* The effect of the first render: listeners attached, timer started, and
\* the timer holding the runAIAnalysis of that render.
Init ==
    /\ aiSecurityStatus = "analyzing"
    /\ securityScore = Null
    /\ behaviorData = InitBehaviorData
    /\ paymentMethod = "credit-card"
    /\ paymentInfo = InitPaymentInfo
    /\ mounted = TRUE
    /\ listeners = EventTypes
    /\ timerActive = TRUE
    /\ tickClosure = InitBehaviorData
    /\ inflight = {}
    /\ nextCallId = 1
    /\ lastCall = [id |-> 0, kind |-> "none", outcome |-> "none",
                   result |-> NoResult, before |-> "analyzing"]
    /\ alertMsg = "none"
    /\ completions = <<>>
    /\ now = 0
    /\ tracker = Construct(now)
    /\ exported = NoExport
    /\ moveLog = <<>>
    /\ hoverOpenedAt = Null
    /\ hoverExpected = 0
    /\ endsSinceStart = 0
    /\ request = NoRequest
    /\ store = <<>>
    /\ responses = <<>>

\* ------------------------------------------------------- event listeners
CounterOf(ev) ==
    CASE ev = "click"     -> "clicks"
      [] ev = "keydown"   -> "keystrokes"
      [] ev = "mousemove" -> "mouseMovements"
      [] ev = "scroll"    -> "scrollEvents"

\* setBehaviorData(prev => ({...prev, [counter]: prev[counter] + 1}))
Bump(b, counter) == [b EXCEPT ![counter] = @ + 1]

HandleEvent(ev) ==
    /\ ev \in listeners
    /\ TotalEvents(behaviorData) < MaxEvents
    /\ behaviorData' = Bump(behaviorData, CounterOf(ev))
    /\ UNCHANGED <<recorderVars, ingestVars, gateVars, formVars, effectVars, inflight, nextCallId,
                   lastCall, alertMsg, completions>>

handleClick     == HandleEvent("click")
handleKeydown   == HandleEvent("keydown")
handleMouseMove == HandleEvent("mousemove")
handleScroll    == HandleEvent("scroll")

handleInputChange ==
    /\ mounted
    /\ TotalEvents(behaviorData) < MaxEvents
    /\ \E field \in RenderedFields(paymentMethod), value \in Values :
          paymentInfo' = [paymentInfo EXCEPT ![field] = value]
    /\ behaviorData' = Bump(behaviorData, "formInteractions")
    /\ UNCHANGED <<recorderVars, ingestVars, gateVars, paymentMethod, effectVars, inflight, nextCallId,
                   lastCall, alertMsg, completions>>

selectPaymentMethod ==
    /\ mounted
    /\ \E m \in Methods \ {paymentMethod} : paymentMethod' = m
    /\ UNCHANGED <<recorderVars, ingestVars, gateVars, behaviorData, paymentInfo, effectVars, inflight,
                   nextCallId, lastCall, alertMsg, completions>>

\* ------------------------------------------------------ runAIAnalysis
\* Up to the await: the payload is built from the behaviorData of the
\* closure the caller holds and fetch is called.
NewCall(kind, seen, status, score) ==
    [id |-> nextCallId, kind |-> kind, payload |-> PayloadOf(seen),
     status |-> status, score |-> score]

IssueCall(kind, seen, status, score) ==
    /\ nextCallId <= MaxCalls
    /\ inflight' = inflight \cup {NewCall(kind, seen, status, score)}
    /\ nextCallId' = nextCallId + 1

\* setInterval(runAIAnalysis, 10000): the callback is the function of the
\* render in which the effect ran.
Tick ==
    /\ timerActive
    /\ IssueCall("tick", tickClosure, "analyzing", Null)
    /\ UNCHANGED <<recorderVars, ingestVars, gateVars, behaviorData, formVars, effectVars, lastCall,
                   alertMsg, completions>>

\* ---------------------------------------------------------- handleSubmit
\* The validation chain; "ok" when no alert is raised.
Validate(m, info) ==
    CASE m = "credit-card" ->
           IF info.cardNumber = "" \/ info.cardName = ""
              \/ info.expiryDate = "" \/ info.cvv = ""
           THEN "Please fill in all card details" ELSE "ok"
      [] m = "bank-transfer" ->
           IF info.bankName = "" THEN "Please select a bank" ELSE "ok"
      [] m = "ewallet" ->
           IF info.ewalletPhone = "" THEN "Please enter your phone number"
           ELSE "ok"

\* if (aiSecurityStatus === 'flagged') { alert(...); return; }
GateBlocksMisspelt(status) == status = "flaged"
GateBlocks(status) == status = "flagged"

\* Up to the await: either an alert and return, or the final analysis is
\* started; the continuation keeps the state values of this render.
handleSubmit ==
    /\ mounted
    /\ IF GateBlocks(aiSecurityStatus)
       THEN /\ alertMsg' = "Security check failed"
            /\ UNCHANGED <<inflight, nextCallId>>
       ELSE IF Validate(paymentMethod, paymentInfo) # "ok"
       THEN /\ alertMsg' = Validate(paymentMethod, paymentInfo)
            /\ UNCHANGED <<inflight, nextCallId>>
       ELSE /\ IssueCall("submit", behaviorData, aiSecurityStatus,
                         securityScore)
            /\ UNCHANGED alertMsg
    /\ UNCHANGED <<recorderVars, ingestVars, gateVars, behaviorData, formVars, effectVars, lastCall,
                   completions>>

\* ------------------------------------------ a scoring call settles
\* The rest of runAIAnalysis after the await, then, for the call made by
\* handleSubmit, the rest of handleSubmit.  A state setter of a component
\* that is no longer mounted has no effect.
StatusAfter(outcome, result, before) ==
    CASE outcome = "ok"    -> VerdictOf(result)
      [] outcome = "throw" -> CatchStatus(before)
      [] outcome = "notok" -> before

ScoreAfter(outcome, result, before) ==
    IF outcome = "ok" THEN ScoreOf(result) ELSE before

\* onComplete({..., securityCheck: {status: aiSecurityStatus, score: securityScore}})
SecurityCheck(c) == [status |-> c.status, score |-> c.score]

\* setSecurityScore / setAiSecurityStatus: React applies a state update
\* only while the component is mounted.
SetStateAppliesAlways(isMounted) == TRUE
SetStateApplies(isMounted) == isMounted

Settle(c, outcome, result) ==
    /\ c \in inflight
    /\ inflight' = inflight \ {c}
    /\ IF SetStateApplies(mounted)
       THEN /\ aiSecurityStatus' = StatusAfter(outcome, result, aiSecurityStatus)
            /\ securityScore' = ScoreAfter(outcome, result, securityScore)
       ELSE UNCHANGED gateVars
    /\ lastCall' = [id |-> c.id, kind |-> c.kind, outcome |-> outcome,
                    result |-> result, before |-> aiSecurityStatus]
    /\ completions' = IF c.kind = "submit"
                      THEN Append(completions, SecurityCheck(c))
                      ELSE completions
    /\ UNCHANGED <<recorderVars, ingestVars, behaviorData, formVars, effectVars,
                   nextCallId, alertMsg>>

\* fetch rejects, or response.json() rejects: the catch block runs.
SettleThrow == \E c \in inflight : Settle(c, "throw", NoResult)
\* response.ok is false: nothing is done.
SettleNotOk == \E c \in inflight : Settle(c, "notok", NoResult)
SettleOk    == \E c \in inflight, r \in GateResults : Settle(c, "ok", r)
SettleOkAny == \E c \in inflight, r \in AllResults : Settle(c, "ok", r)

\* ------------------------------------------------------- effect cleanup
\* cleanup(): the four removeEventListener calls.
ListenersAfterCleanup(ls) == ls \ {"click", "keydown", "mousemove", "scroll"}
\* clearInterval(aiAnalysisInterval)
TimerLeftRunning(t) == t
TimerAfterCleanup(t) == FALSE

Unmount ==
    /\ mounted
    /\ mounted' = FALSE
    /\ listeners' = ListenersAfterCleanup(listeners)
    /\ timerActive' = TimerAfterCleanup(timerActive)
    /\ UNCHANGED <<recorderVars, ingestVars, gateVars, behaviorData, formVars, tickClosure, inflight,
                   nextCallId, lastCall, alertMsg, completions>>

\* ------------------------------------------------------- specifications
Next ==
    \/ handleClick
    \/ handleKeydown
    \/ handleMouseMove
    \/ handleScroll
    \/ handleInputChange
    \/ selectPaymentMethod
    \/ Tick
    \/ handleSubmit
    \/ SettleThrow
    \/ SettleNotOk
    \/ SettleOk
    \/ Unmount

Spec == Init /\ [][Next]_vars

\* The gate alone, over the whole grid of responses.
NextVerdict ==
    \/ Tick
    \/ SettleThrow
    \/ SettleNotOk
    \/ SettleOkAny
    \/ Unmount

SpecVerdict == Init /\ [][NextVerdict]_vars

\* ======================================================= BehaviorTracker
\* Numbers are exact rationals n/d in lowest terms; NaN, Infinity and
\* undefined are kept apart from them.  Angles are counted in quarter
\* turns (pi is 2), for samples that move along one axis at a time.
MaxKeys   == 4      \* keystroke events recorded in one session
MaxMoves  == 102    \* pointer samples recorded in one session
MaxClicks == 1      \* clicks recorded in one session
MaxEdits  == 1      \* field edits recorded in one session

MaxPositions == 100
ClockValues == {0, 10, 20, 30}
FieldIds == {"ktp", "name"}
KeyEventTypes == {"keydown", "keyup", "paste"}
KeyValues == {"3"}

Abs(x) == IF x < 0 THEN 0 - x ELSE x

RECURSIVE GCD(_, _)
GCD(a, b) == IF b = 0 THEN a ELSE GCD(b, a % b)

Rat(n, d) ==
    LET g == GCD(Abs(n), Abs(d))
        s == IF d < 0 THEN 0 - 1 ELSE 1
    IN [k |-> "num", n |-> (s * n) \div g, d |-> (s * d) \div g]
Num(n) == [k |-> "num", n |-> n, d |-> 1]
JSNaN       == [k |-> "NaN", n |-> 0, d |-> 1]
JSInfinity  == [k |-> "Infinity", n |-> 1, d |-> 1]
JSUndefined == [k |-> "undefined", n |-> 0, d |-> 1]

JSAdd(a, b) ==
    IF a.k = "num" /\ b.k = "num" THEN Rat(a.n * b.d + b.n * a.d, a.d * b.d)
    ELSE JSNaN
JSSub(a, b) ==
    IF a.k = "num" /\ b.k = "num" THEN Rat(a.n * b.d - b.n * a.d, a.d * b.d)
    ELSE JSNaN
JSMul(a, b) ==
    IF a.k = "num" /\ b.k = "num" THEN Rat(a.n * b.n, a.d * b.d) ELSE JSNaN
\* a / b: 0/0 is NaN, x/0 is Infinity for x > 0.
JSDiv(a, b) ==
    IF a.k # "num" \/ b.k # "num" THEN JSNaN
    ELSE IF b.n = 0 THEN (IF a.n = 0 THEN JSNaN ELSE JSInfinity)
    ELSE Rat(a.n * b.d, a.d * b.n)

\* v || 0
OrZeroOmitted(v) == v
OrZero(v) ==
    IF v.k = "Infinity" \/ (v.k = "num" /\ v.n # 0) THEN v ELSE Num(0)

\* ---- 1. session time
getSessionTime(t, clock) == clock - t.sessionStartTime

\* ---- 2. keystroke dynamics
KeyEvent(fieldId, eventType, clock, value) ==
    [fieldId |-> fieldId, eventType |-> eventType, timestamp |-> clock,
     value |-> value, length |-> Len(value)]

IsKeydown(e) == e.eventType = "keydown"
IsPaste(e)   == e.eventType = "paste"

\* intervals.reduce((a, b) => a + b, 0)
RECURSIVE SumSeq(_)
SumSeq(s) == IF s = <<>> THEN 0 ELSE s[1] + SumSeq(Tail(s))

\* intervals.reduce((sum, val) => sum + Math.pow(val - avg, 2), 0)
RECURSIVE SumSqDev(_, _)
SumSqDev(s, avg) ==
    IF s = <<>> THEN Num(0)
    ELSE LET dev == JSSub(Num(s[1]), avg)
         IN JSAdd(JSMul(dev, dev), SumSqDev(Tail(s), avg))

\* The divisor of the variance.
VarianceDivisorSample(intervals) == Len(intervals) - 1
VarianceDivisor(intervals) == Len(intervals)

\* `return 0`: every property read from the number 0 is undefined.
DynamicsOfZero ==
    [isObject |-> FALSE, averageInterval |-> JSUndefined,
     variance |-> JSUndefined, totalTime |-> JSUndefined,
     pasteDetected |-> "undefined"]

getKTPKeystrokeDynamics(t) ==
    LET data == t.ktpKeystrokeData
        keydownEvents == SelectSeq(data, IsKeydown)
        intervals == [i \in 1..(Len(keydownEvents) - 1) |->
                        keydownEvents[i + 1].timestamp
                        - keydownEvents[i].timestamp]
        avgInterval == JSDiv(Num(SumSeq(intervals)), Num(Len(intervals)))
    IN IF Len(data) < 2 THEN DynamicsOfZero
       ELSE IF Len(keydownEvents) < 2 THEN DynamicsOfZero
       ELSE [isObject |-> TRUE,
             averageInterval |-> avgInterval,
             variance |-> JSDiv(SumSqDev(intervals, avgInterval),
                                Num(VarianceDivisor(intervals))),
             totalTime |-> Num(keydownEvents[Len(keydownEvents)].timestamp
                               - keydownEvents[1].timestamp),
             pasteDetected |->
                 IF \E i \in 1..Len(data) : IsPaste(data[i])
                 THEN "true" ELSE "false"]

\* ---- 3. field edits
RECURSIVE SumValues(_, _)
SumValues(f, keys) ==
    IF keys = {} THEN 0
    ELSE LET key == CHOOSE x \in keys : TRUE
         IN f[key] + SumValues(f, keys \ {key})

getTotalFieldEdits(t) == SumValues(t.fieldEditCounts, DOMAIN t.fieldEditCounts)

\* ---- 4. mouse movement
Sqrt(n) == CHOOSE r \in 0..n : r * r = n

\* Math.atan2(dy, dx) in quarter turns, for a vector along one axis.
Atan2(dy, dx) ==
    CASE dy = 0 /\ dx >= 0 -> 0
      [] dy = 0 /\ dx < 0  -> 2
      [] dx = 0 /\ dy > 0  -> 1
      [] dx = 0 /\ dy < 0  -> 0 - 1
PI == 2

DistanceSquared(prev, curr) ==
    (curr.x - prev.x) * (curr.x - prev.x)
    + (curr.y - prev.y) * (curr.y - prev.y)
Distance(prev, curr) ==
    Sqrt((curr.x - prev.x) * (curr.x - prev.x)
         + (curr.y - prev.y) * (curr.y - prev.y))

AngleChangeOfSum(prevPrev, prev, curr) ==
    LET angle1 == Atan2(prev.y - prevPrev.y, prev.x - prevPrev.x)
        angle2 == Atan2(curr.y - prev.y, curr.x - prev.x)
        change == Abs(angle2 + angle1)
    IN IF change > PI THEN 2 * PI - change ELSE change
AngleChange(prevPrev, prev, curr) ==
    LET angle1 == Atan2(prev.y - prevPrev.y, prev.x - prevPrev.x)
        angle2 == Atan2(curr.y - prev.y, curr.x - prev.x)
        change == Abs(angle2 - angle1)
    IN IF change > PI THEN 2 * PI - change ELSE change

\* The loop, from index i (1-based: the second sample is i = 2) to the end.
RECURSIVE TotalDistance(_, _)
TotalDistance(ps, i) ==
    IF i > Len(ps) THEN 0
    ELSE Distance(ps[i - 1], ps[i]) + TotalDistance(ps, i + 1)

RECURSIVE TotalAngleChange(_, _)
TotalAngleChange(ps, i) ==
    IF i > Len(ps) THEN 0
    ELSE AngleChange(ps[i - 2], ps[i - 1], ps[i])
         + TotalAngleChange(ps, i + 1)

EntropyOfZero ==
    [isObject |-> FALSE, totalDistance |-> JSUndefined,
     averageAngleChange |-> JSUndefined, smoothness |-> JSUndefined]

getMouseMovementEntropy(t) ==
    LET ps == t.mousePositions
        avgAngleChange == JSDiv(Num(TotalAngleChange(ps, 3)),
                                Num(Len(ps) - 2))
    IN IF Len(ps) < 2 THEN EntropyOfZero
       ELSE [isObject |-> TRUE,
             totalDistance |-> Num(TotalDistance(ps, 2)),
             averageAngleChange |-> avgAngleChange,
             smoothness |-> avgAngleChange]

\* ---- 5, 6. hesitation and clicks
getSeatHesitationTime(t) == t.seatHesitationTime
getTotalClicks(t) == t.totalClicks

getAllMetrics(t, clock) ==
    [sessionTime |-> getSessionTime(t, clock),
     seatHesitationTime |-> getSeatHesitationTime(t),
     ktpKeystrokeDynamics |-> getKTPKeystrokeDynamics(t),
     fieldEditCount |-> getTotalFieldEdits(t),
     mouseMovementEntropy |-> getMouseMovementEntropy(t),
     totalClicks |-> getTotalClicks(t)]

\* The object literal exportForML returns, as its keys in insertion order
\* with their values.
ExportFieldsShort(metrics) ==
    LET ktpDynamics == metrics.ktpKeystrokeDynamics
        mouseEntropy == metrics.mouseMovementEntropy
    IN << <<"session_time_ms", Num(metrics.sessionTime)>>,
          <<"seat_hesitation_time_ms", Num(metrics.seatHesitationTime)>>,
          <<"ktp_avg_keystroke_interval_ms",
            OrZero(ktpDynamics.averageInterval)>>,
          <<"ktp_keystroke_variance", OrZero(ktpDynamics.variance)>>,
          <<"ktp_total_entry_time_ms", OrZero(ktpDynamics.totalTime)>>,
          <<"field_edit_count", Num(metrics.fieldEditCount)>>,
          <<"mouse_total_distance", OrZero(mouseEntropy.totalDistance)>>,
          <<"mouse_smoothness", OrZero(mouseEntropy.smoothness)>>,
          <<"total_clicks", Num(metrics.totalClicks)>> >>
ExportFields(metrics) ==
    LET ktpDynamics == metrics.ktpKeystrokeDynamics
        mouseEntropy == metrics.mouseMovementEntropy
    IN << <<"session_time_ms", Num(metrics.sessionTime)>>,
          <<"seat_hesitation_time_ms", Num(metrics.seatHesitationTime)>>,
          <<"ktp_avg_keystroke_interval_ms",
            OrZero(ktpDynamics.averageInterval)>>,
          <<"ktp_keystroke_variance", OrZero(ktpDynamics.variance)>>,
          <<"ktp_total_entry_time_ms", OrZero(ktpDynamics.totalTime)>>,
          <<"ktp_paste_detected",
            IF ktpDynamics.pasteDetected = "true" THEN Num(1) ELSE Num(0)>>,
          <<"field_edit_count", Num(metrics.fieldEditCount)>>,
          <<"mouse_total_distance", OrZero(mouseEntropy.totalDistance)>>,
          <<"mouse_smoothness", OrZero(mouseEntropy.smoothness)>>,
          <<"total_clicks", Num(metrics.totalClicks)>> >>

ExportForML(t, clock) == ExportFields(getAllMetrics(t, clock))

\* The tracker after getAllMetrics / exportForML: the getters assign no
\* field (filter and reduce build new arrays).
AfterExtractionDrained(t) == [t EXCEPT !.mousePositions = <<>>]
AfterExtraction(t) == t

\* ------------------------------------------------- recorder operations
hoverGhosts == <<hoverOpenedAt, hoverExpected, endsSinceStart>>

AdvanceClock ==
    /\ \E c \in ClockValues : c > now /\ now' = c
    /\ exported' = NoExport
    /\ UNCHANGED <<checkoutVars, ingestVars, tracker, moveLog, hoverGhosts>>

trackKTPKeystroke ==
    /\ Len(tracker.ktpKeystrokeData) < MaxKeys
    /\ \E fieldId \in FieldIds, eventType \in KeyEventTypes,
          value \in KeyValues :
          tracker' = [tracker EXCEPT !.ktpKeystrokeData =
                        Append(@, KeyEvent(fieldId, eventType, now, value))]
    /\ exported' = NoExport
    /\ UNCHANGED <<checkoutVars, ingestVars, now, moveLog, hoverGhosts>>

\* if (!counts[fieldId]) counts[fieldId] = 0;  counts[fieldId]++
EditCountsAfter(counts, fieldId) ==
    [f \in DOMAIN counts \cup {fieldId} |->
        IF f = fieldId
        THEN (IF f \in DOMAIN counts /\ Truthy(counts[f])
              THEN counts[f] ELSE 0) + 1
        ELSE counts[f]]

trackFieldEdit ==
    /\ getTotalFieldEdits(tracker) < MaxEdits
    /\ \E fieldId \in FieldIds :
          tracker' = [tracker EXCEPT !.fieldEditCounts =
                        EditCountsAfter(@, fieldId)]
    /\ exported' = NoExport
    /\ UNCHANGED <<checkoutVars, ingestVars, now, moveLog, hoverGhosts>>

\* push, then shift once the array holds more than 100 samples.
Sample(x, y, clock) == [x |-> x, y |-> y, timestamp |-> clock]
EvictNewest(ps) == SubSeq(ps, 1, Len(ps) - 1)
Evict(ps) == Tail(ps)
OverCapacityOffByOne(ps) == Len(ps) > MaxPositions + 1
OverCapacity(ps) == Len(ps) > MaxPositions
PositionsAfter(ps, sample) ==
    LET pushed == Append(ps, sample)
    IN IF OverCapacity(pushed) THEN Evict(pushed) ELSE pushed

TrackMouseMovement(x, y) ==
    /\ Len(moveLog) < MaxMoves
    /\ tracker' = [tracker EXCEPT !.mousePositions =
                     PositionsAfter(@, Sample(x, y, now))]
    /\ moveLog' = Append(moveLog, Sample(x, y, now))
    /\ exported' = NoExport
    /\ UNCHANGED <<checkoutVars, ingestVars, now, hoverGhosts>>

\* The pointer sweeping to the right, one pixel a sample.
trackMouseMovement ==
    \E x \in {Len(moveLog)}, y \in {0} : TrackMouseMovement(x, y)

\* if (!this.seatHoverStartTime) this.seatHoverStartTime = Date.now()
HoverIdle(start) == ~Truthy(start)
\* this.seatHoverStartTime = Date.now()
HoverBegunFromZero(t, clock) ==
    [t EXCEPT !.seatHoverStartTime = clock, !.seatHesitationTime = 0]
HoverBegun(t, clock) == [t EXCEPT !.seatHoverStartTime = clock]

startSeatHover ==
    /\ tracker' = IF HoverIdle(tracker.seatHoverStartTime)
                  THEN HoverBegun(tracker, now)
                  ELSE tracker
    /\ hoverOpenedAt' = IF hoverOpenedAt = Null THEN now ELSE hoverOpenedAt
    /\ endsSinceStart' = 0
    /\ exported' = NoExport
    /\ UNCHANGED <<checkoutVars, ingestVars, now, moveLog, hoverExpected>>

\* if (this.seatHoverStartTime) { time += now - start; start = null }
HoverClosesAlways(start) == TRUE
HoverCloses(start) == Truthy(start)

endSeatHover ==
    /\ tracker' = IF HoverCloses(tracker.seatHoverStartTime)
                  THEN [tracker EXCEPT
                          !.seatHesitationTime =
                              @ + (now - IF tracker.seatHoverStartTime = Null
                                         THEN 0
                                         ELSE tracker.seatHoverStartTime),
                          !.seatHoverStartTime = Null]
                  ELSE tracker
    /\ hoverExpected' = IF hoverOpenedAt = Null THEN hoverExpected
                        ELSE hoverExpected + (now - hoverOpenedAt)
    /\ hoverOpenedAt' = Null
    /\ endsSinceStart' = IF endsSinceStart < 2 THEN endsSinceStart + 1 ELSE 2
    /\ exported' = NoExport
    /\ UNCHANGED <<checkoutVars, ingestVars, now, moveLog>>

trackClick ==
    /\ tracker.totalClicks < MaxClicks
    /\ tracker' = [tracker EXCEPT !.totalClicks = @ + 1]
    /\ exported' = NoExport
    /\ UNCHANGED <<checkoutVars, ingestVars, now, moveLog, hoverGhosts>>

exportForML ==
    /\ tracker' = AfterExtraction(tracker)
    /\ exported' = ExportForML(tracker', now)
    /\ UNCHANGED <<checkoutVars, ingestVars, now, moveLog, hoverGhosts>>

\* Keystrokes under a running clock.
NextKeys ==
    \/ AdvanceClock
    \/ trackKTPKeystroke
    \/ exportForML

SpecKeys == Init /\ [][NextKeys]_vars

\* Seat hovers under a running clock.
NextHover ==
    \/ AdvanceClock
    \/ startSeatHover
    \/ endSeatHover
    \/ trackClick
    \/ exportForML

SpecHover == Init /\ [][NextHover]_vars

\* A long pointer sweep interleaved with the other recorder operations.
NextPointer ==
    \/ trackMouseMovement
    \/ trackFieldEdit
    \/ startSeatHover
    \/ endSeatHover
    \/ trackClick
    \/ exportForML

SpecPointer == Init /\ [][NextPointer]_vars

\* ------------------------------------------------------------ properties
\* A step in which a scoring call settles, and one in which onComplete runs.
Settled   == lastCall'.id # lastCall.id
Finalized == Len(completions') > Len(completions)
Failed    == Settled /\ lastCall'.outcome \in {"throw", "notok"}

\* C1: the checkout is finalized (onComplete is invoked) only when the
\* Decision Gate state is passed, never while it is analyzing or flagged.
C1_FinalizedOnlyWhenPassed ==
    [][Finalized => aiSecurityStatus' = "passed"]_vars

\* C2: whenever the final scoring call awaited by handleSubmit returns a
\* flagged verdict, onComplete is not invoked.
C2_FlaggedFinalScoreBlocks ==
    [][(Settled /\ lastCall'.kind = "submit" /\ lastCall'.outcome = "ok"
        /\ VerdictOf(lastCall'.result) = "flagged")
       => ~Finalized]_vars

\* C3: the securityCheck status and score passed to onComplete are the gate
\* state and score left by the final re-score handleSubmit awaited.
C3_ReportsFinalScore ==
    [][Finalized =>
         completions'[Len(completions')]
           = [status |-> aiSecurityStatus', score |-> securityScore']]_vars

\* C4: handleSubmit invoked while the gate is flagged shows the security
\* message, issues no scoring call and does not invoke onComplete.
C4_FlaggedSubmitBlocked ==
    [][(handleSubmit /\ aiSecurityStatus = "flagged")
       => /\ alertMsg' = "Security check failed"
          /\ inflight' = inflight
          /\ nextCallId' = nextCallId
          /\ ~Finalized]_vars

C4_Witness ==
    /\ mounted
    /\ aiSecurityStatus = "flagged"
    /\ alertMsg = "Security check failed"

\* C5: a failed scoring call (fetch throws, or a non-success response)
\* leaves an analyzing gate in analyzing, and no failed call sets the gate
\* to passed.
C5_FailureKeepsAnalyzing ==
    [][Failed =>
         /\ (aiSecurityStatus = "analyzing" => aiSecurityStatus' = "analyzing")
         /\ (aiSecurityStatus' = "passed" => aiSecurityStatus = "passed")]_vars

C5_Witness ==
    /\ mounted
    /\ lastCall.outcome = "throw"
    /\ lastCall.before = "analyzing"
    /\ aiSecurityStatus = "analyzing"

\* C6: passed and flagged are terminal: the gate starts in analyzing (Init)
\* and once it is passed or flagged no later periodic tick, successful or
\* failed, changes it.
C6_TerminalStates ==
    [][(Settled /\ lastCall'.kind = "tick"
        /\ aiSecurityStatus \in {"passed", "flagged"})
       => aiSecurityStatus' = aiSecurityStatus]_vars

\* C7: at most one scoring call is in flight at any time.
C7_OneCallInFlight == Cardinality(inflight) <= 1

\* C8: the counters a periodic tick sends are the numbers of events handled
\* since the session started, as they stand when the tick is issued.
C8_TickPayloadCurrent ==
    [][\A c \in inflight' \ inflight :
          c.kind = "tick" => c.payload = PayloadOf(behaviorData)]_vars

\* C9: after teardown the timer is cancelled and every listener detached:
\* none remains, no further tick is issued and no listener runs.
C9_TeardownCancels ==
    /\ [](~mounted => (~timerActive /\ listeners = {}))
    /\ [][~mounted =>
            /\ behaviorData' = behaviorData
            /\ \A c \in inflight' \ inflight : c.kind # "tick"]_vars

C9_Witness ==
    /\ ~mounted
    /\ nextCallId <= MaxCalls
    /\ TotalEvents(behaviorData) < MaxEvents

\* C10: the verdict of a successful response is fixed by its confidence c:
\* c above the trusted threshold gives passed, c below the suspicious
\* threshold gives flagged, anything in between gives analyzing.
ThresholdVerdict(c) ==
    IF c > TrustedThreshold THEN "passed"
    ELSE IF c < SuspiciousThreshold THEN "flagged"
    ELSE "analyzing"

C10_VerdictByThresholds ==
    [][(Settled /\ mounted /\ lastCall'.outcome = "ok"
        /\ lastCall'.result.confidence # Undefined)
       => aiSecurityStatus' = ThresholdVerdict(lastCall'.result.confidence)]_vars

\* A few pointer samples on a small grid, each move along one axis.
MaxSamples == 3     \* pointer samples recorded on the grid
GridMax    == 2     \* largest grid coordinate
Grid == 0..GridMax

AlongOneAxis(ps, x, y) ==
    IF Len(ps) = 0 THEN TRUE
    ELSE x = ps[Len(ps)].x \/ y = ps[Len(ps)].y

trackMouseMovementOnGrid ==
    /\ Len(moveLog) < MaxSamples
    /\ \E x \in Grid, y \in Grid :
          /\ AlongOneAxis(tracker.mousePositions, x, y)
          /\ TrackMouseMovement(x, y)

NextMouse ==
    \/ trackMouseMovementOnGrid
    \/ exportForML

SpecMouse == Init /\ [][NextMouse]_vars

\* ------------------------------------------------ ingestion endpoint
\* POST of app/api/save-training-data/route.js.  A body's fields and a
\* row's columns are sequences of <<name, value>> pairs, as a feature
\* vector is.
MaxRequests == 2    \* requests the endpoint handles

JSNull == [k |-> "null", n |-> 0, d |-> 1]
UserIds == {<<>>, <<"">>, <<"u1">>}
InsertOutcomes == {"ok", "error", "throws"}

\* The columns of the inserted object, in order.
InsertColumns ==
    <<"session_time_ms", "seat_hesitation_time_ms",
      "ktp_avg_keystroke_interval_ms", "ktp_keystroke_variance",
      "ktp_total_entry_time_ms", "ktp_paste_detected", "field_edit_count",
      "mouse_total_distance", "mouse_smoothness", "total_clicks">>

\* JSON.stringify on the sender's side and req.json() here: a key whose
\* value is undefined is dropped, NaN and Infinity arrive as null.
JsonValue(v) == IF v.k \in {"NaN", "Infinity"} THEN JSNull ELSE v
JsonBody(fields) ==
    LET kept == SelectSeq(fields, LAMBDA pr : pr[2].k # "undefined")
    IN [i \in 1..Len(kept) |-> <<kept[i][1], JsonValue(kept[i][2])>>]

\* behaviorData.name
Lookup(fields, name) ==
    IF \E i \in 1..Len(fields) : fields[i][1] = name
    THEN LET i == CHOOSE j \in 1..Len(fields) : fields[j][1] = name
         IN fields[i][2]
    ELSE JSUndefined

\* v || dflt
OrElse(v, dflt) ==
    IF v.k = "Infinity" \/ (v.k = "num" /\ v.n # 0) THEN v ELSE dflt

\* The right-hand side of || in each column of the inserted object.
DefaultOfAlwaysZero(name) == Num(0)
DefaultOf(name) ==
    IF name \in {"session_time_ms", "seat_hesitation_time_ms",
                 "ktp_paste_detected", "field_edit_count", "total_clicks"}
    THEN Num(0)
    ELSE JSNull

\* !user_id
UserIdMissingNever(uid) == FALSE
UserIdMissing(uid) == IF Len(uid) = 0 THEN TRUE ELSE uid[1] = ""

InsertedRow(body) ==
    [user_id |-> body.user_id[1],
     columns |-> [i \in 1..Len(InsertColumns) |->
                    <<InsertColumns[i],
                      OrElse(Lookup(body.fields, InsertColumns[i]),
                             DefaultOf(InsertColumns[i]))>>]]

Response(status, success, error, data) ==
    [status |-> status, success |-> success, error |-> error, data |-> data]

\* The handler, for a request whose body parses (req.json() resolves) or
\* does not, and for each way the insert can end.
POST(body, outcome) ==
    /\ Len(responses) < MaxRequests
    /\ request' = body
    /\ IF ~body.parses
       THEN /\ store' = store
            /\ responses' = Append(responses,
                               Response(500, FALSE, "server_error", <<>>))
       ELSE IF UserIdMissing(body.user_id)
       THEN /\ store' = store
            /\ responses' = Append(responses,
                               Response(400, FALSE, "Missing user_id", <<>>))
       ELSE IF outcome = "error"
       THEN /\ store' = store
            /\ responses' = Append(responses,
                               Response(500, FALSE, "error.message", <<>>))
       ELSE IF outcome = "throws"
       THEN /\ store' = store
            /\ responses' = Append(responses,
                               Response(500, FALSE, "server_error", <<>>))
       ELSE /\ store' = Append(store, InsertedRow(body))
            /\ responses' = Append(responses,
                               Response(200, TRUE, "", <<InsertedRow(body)>>))
    /\ UNCHANGED <<checkoutVars, recorderVars>>

Unparsed == [parses |-> FALSE, user_id |-> <<>>, fields |-> <<>>]

\* Bodies that leave out no column, one column, all but one, or all.
MissingSets ==
    LET all == {InsertColumns[i] : i \in 1..Len(InsertColumns)}
    IN {{}, all} \cup {{c} : c \in all} \cup {all \ {c} : c \in all}
SentValue == Num(7)
PartialFields(missing) ==
    LET present == SelectSeq(InsertColumns, LAMBDA c : c \notin missing)
    IN [i \in 1..Len(present) |-> <<present[i], SentValue>>]

\* A client posts a body of its own making.
PostPartial ==
    \/ POST(Unparsed, "ok")
    \/ \E uid \in UserIds, missing \in MissingSets,
          outcome \in InsertOutcomes :
          POST([parses |-> TRUE, user_id |-> uid,
                fields |-> PartialFields(missing)], outcome)

\* A client posts the feature vector it just exported.
PostExported ==
    /\ exported # NoExport
    /\ \E uid \in UserIds, outcome \in InsertOutcomes :
          POST([parses |-> TRUE, user_id |-> uid,
                fields |-> JsonBody(exported)], outcome)

NextIngest == PostPartial

SpecIngest == Init /\ [][NextIngest]_vars

\* The recorder feeding the endpoint.
NextRoundTrip ==
    \/ trackMouseMovementOnGrid
    \/ trackClick
    \/ exportForML
    \/ PostExported

SpecRoundTrip == Init /\ [][NextRoundTrip]_vars

\* ---------------------------------------- properties of the recorder
Min(a, b) == IF a < b THEN a ELSE b
Exported == exported # NoExport
\* The value exported under a field name, and the names in order.
Field(name) ==
    LET i == CHOOSE j \in 1..Len(exported) : exported[j][1] = name
    IN exported[i][2]
FieldNames == [i \in 1..Len(exported) |-> exported[i][1]]

Keydowns == SelectSeq(tracker.ktpKeystrokeData, IsKeydown)
KeydownTimes == [i \in 1..Len(Keydowns) |-> Keydowns[i].timestamp]
PasteRecorded ==
    \E i \in 1..Len(tracker.ktpKeystrokeData) :
        tracker.ktpKeystrokeData[i].eventType = "paste"

\* C11: the pointer-sample buffer never holds more than 100 entries,
\* however many samples are recorded and whatever else is interleaved.
C11_BufferBounded == Len(tracker.mousePositions) <= MaxPositions

C11_Witness ==
    /\ Len(moveLog) > MaxPositions
    /\ Len(tracker.mousePositions) = MaxPositions
    /\ tracker.totalClicks > 0

\* C12: after n trackMouseMovement calls the buffer is exactly the last
\* min(n, 100) samples given, in arrival order.
C12_StrictFifo ==
    LET n == Len(moveLog)
        k == Min(n, MaxPositions)
    IN tracker.mousePositions = SubSeq(moveLog, n - k + 1, n)

C12_Witness ==
    /\ Len(moveLog) > MaxPositions + 1
    /\ tracker.mousePositions[1] = moveLog[Len(moveLog) - MaxPositions + 1]

\* C13: endSeatHover while no hover is active, and a second endSeatHover
\* with no startSeatHover in between, leave the accumulated hesitation time
\* and the hover state unchanged.
C13_EndTwiceCountsOnce ==
    [][(endSeatHover
        /\ (tracker.seatHoverStartTime = Null \/ endsSinceStart >= 1))
       => /\ tracker'.seatHesitationTime = tracker.seatHesitationTime
          /\ tracker'.seatHoverStartTime = tracker.seatHoverStartTime]_vars

C13_Witness ==
    /\ endsSinceStart = 2
    /\ tracker.seatHesitationTime > 0
    /\ tracker.seatHoverStartTime = Null

\* C14: startSeatHover while a hover is active leaves the recorded start
\* time and the accumulated hesitation time unchanged, whatever the clock
\* read when the active hover began.
C14_BeginWhileActiveNoOp ==
    [][(startSeatHover /\ tracker.seatHoverStartTime # Null)
       => tracker' = tracker]_vars

\* C15: under a monotonic clock the accumulated hesitation time is the sum
\* over the completed hover intervals of end time minus the time of the
\* begin that opened the interval.
C15_HesitationIsSumOfIntervals == tracker.seatHesitationTime = hoverExpected

\* C16: with fewer than 2 keystroke events, or fewer than 2 key-down
\* events, the exported average interval, variance and total entry time
\* are 0 and every ktp_* field is a number (not NaN, not undefined).
KtpFields ==
    {"ktp_avg_keystroke_interval_ms", "ktp_keystroke_variance",
     "ktp_total_entry_time_ms", "ktp_paste_detected"}

C16_FewKeystrokesGiveZeros ==
    (Exported /\ (Len(tracker.ktpKeystrokeData) < 2 \/ Len(Keydowns) < 2))
    => /\ Field("ktp_avg_keystroke_interval_ms") = Num(0)
       /\ Field("ktp_keystroke_variance") = Num(0)
       /\ Field("ktp_total_entry_time_ms") = Num(0)
       /\ \A f \in KtpFields : Field(f).k = "num"

C16_Witness ==
    /\ Exported
    /\ Len(tracker.ktpKeystrokeData) >= 2
    /\ Len(Keydowns) = 1

\* C17: the exported ktp_paste_detected is 1 exactly when a paste event has
\* been recorded in the session, and 0 otherwise.
C17_PasteDetectedIffPasted ==
    Exported =>
       Field("ktp_paste_detected") = (IF PasteRecorded THEN Num(1) ELSE Num(0))

\* C18: for n >= 2 key-down timestamps t1..tn the exported average is the
\* mean of the consecutive differences, the variance their population
\* variance and the total entry time tn - t1; [0,10,20,30] gives 10, 0, 30.
RECURSIVE SumSquaredGaps(_)
SumSquaredGaps(ts) ==
    IF Len(ts) < 2 THEN 0
    ELSE (ts[2] - ts[1]) * (ts[2] - ts[1]) + SumSquaredGaps(Tail(ts))

C18_KeystrokeDynamics ==
    (Exported /\ Len(Keydowns) >= 2) =>
       LET ts == KeydownTimes
           m == Len(ts) - 1
           span == ts[Len(ts)] - ts[1]
           avg == Field("ktp_avg_keystroke_interval_ms")
       IN /\ avg = Rat(span, m)
          /\ Field("ktp_keystroke_variance")
               = JSSub(Rat(SumSquaredGaps(ts), m), JSMul(avg, avg))
          /\ Field("ktp_total_entry_time_ms") = Num(span)
          /\ (ts = <<0, 10, 20, 30>> =>
                /\ avg = Num(10)
                /\ Field("ktp_keystroke_variance") = Num(0)
                /\ Field("ktp_total_entry_time_ms") = Num(30))

C18_Witness ==
    /\ Exported
    /\ KeydownTimes = <<0, 10, 20, 30>>
    /\ Field("ktp_avg_keystroke_interval_ms") = Num(10)

\* C19: every exportForML returns exactly the ten canonical fields, in the
\* canonical order.
CanonicalFields ==
    <<"session_time_ms", "seat_hesitation_time_ms",
      "ktp_avg_keystroke_interval_ms", "ktp_keystroke_variance",
      "ktp_total_entry_time_ms", "ktp_paste_detected", "field_edit_count",
      "mouse_total_distance", "mouse_smoothness", "total_clicks">>

C19_CanonicalFieldOrder == Exported => FieldNames = CanonicalFields

C19_Witness ==
    /\ Exported
    /\ Len(Keydowns) >= 2
    /\ now > 0

\* C20: getAllMetrics and exportForML leave every field of the recorder
\* unchanged.
C20_ExtractionOnlyReads ==
    [][exported' # NoExport => tracker' = tracker]_vars

C20_Witness ==
    /\ Exported
    /\ Len(tracker.mousePositions) = MaxPositions
    /\ tracker.totalClicks > 0
    /\ tracker.seatHoverStartTime # Null

\* ------------------------------------------- pointer samples on the grid
Samples == tracker.mousePositions

\* The length of the path through the samples; on a row or column of the
\* grid the distance between two samples is |dx| + |dy|.
RECURSIVE PathLength(_)
PathLength(ps) ==
    IF Len(ps) < 2 THEN 0
    ELSE Abs(ps[2].x - ps[1].x) + Abs(ps[2].y - ps[1].y)
         + PathLength(Tail(ps))

Cross(p, q, r) == (q.x - p.x) * (r.y - p.y) - (q.y - p.y) * (r.x - p.x)
Dot(p, q, r)   == (q.x - p.x) * (r.x - q.x) + (q.y - p.y) * (r.y - q.y)

\* All samples lie on one straight line.
Collinear(ps) ==
    \A i, j, k \in 1..Len(ps) : Cross(ps[i], ps[j], ps[k]) = 0

\* Every sample lies strictly ahead of the one before it, in one direction.
Advancing(ps) ==
    /\ \A i \in 2..Len(ps) : ps[i].x # ps[i - 1].x \/ ps[i].y # ps[i - 1].y
    /\ \A i \in 3..Len(ps) : Dot(ps[i - 2], ps[i - 1], ps[i]) > 0

\* C24: with fewer than 2 retained pointer samples the export reports
\* mouse_total_distance = 0 and mouse_smoothness = 0; with exactly 2 samples
\* mouse_smoothness = 0 and mouse_total_distance is the distance between the
\* two; neither field is ever NaN or undefined.
C24_FewSamples ==
    Exported =>
       /\ Field("mouse_total_distance").k = "num"
       /\ Field("mouse_smoothness").k = "num"
       /\ Len(Samples) < 2 =>
             /\ Field("mouse_total_distance") = Num(0)
             /\ Field("mouse_smoothness") = Num(0)
       /\ Len(Samples) = 2 =>
             /\ Field("mouse_total_distance") = Num(PathLength(Samples))
             /\ Field("mouse_smoothness") = Num(0)

C24_Witness ==
    /\ Exported
    /\ Len(Samples) = 2
    /\ Field("mouse_total_distance").n >= 2
    /\ Field("mouse_smoothness") = Num(0)

\* C25 as stated: for 3 or more retained pointer samples that all lie on one
\* straight line, the total distance is the sum of the consecutive distances
\* and the smoothness (the average turning angle) is 0.
C25_StraightLine ==
    (Exported /\ Len(Samples) >= 3 /\ Collinear(Samples))
    => /\ Field("mouse_total_distance") = Num(PathLength(Samples))
       /\ Field("mouse_smoothness") = Num(0)

\* C25 amended: the same, for samples on one straight line each of which
\* lies strictly ahead of the one before it (the pointer neither stops nor
\* turns back).
C25_StraightLineAdvancing ==
    (Exported /\ Len(Samples) >= 3 /\ Collinear(Samples)
     /\ Advancing(Samples))
    => /\ Field("mouse_total_distance") = Num(PathLength(Samples))
       /\ Field("mouse_smoothness") = Num(0)

C25_Witness ==
    /\ Exported
    /\ Len(Samples) >= 3
    /\ Collinear(Samples)
    /\ Advancing(Samples)
    /\ Samples[1].x = Samples[2].x
    /\ Field("mouse_total_distance") = Num(2)
    /\ Field("mouse_smoothness") = Num(0)

\* C26: the recorder does not retain unbounded history: the number of
\* keystroke records held does not grow with every trackKTPKeystroke call,
\* so after MaxKeys calls fewer than MaxKeys records are held.
C26_KeystrokesAggregated == Len(tracker.ktpKeystrokeData) < MaxKeys

\* The value a feature vector holds under a field name.
ValueOf(fields, name) ==
    LET i == CHOOSE j \in 1..Len(fields) : fields[j][1] = name
    IN fields[i][2]
KtpDynamicsOf(t, clock) ==
    LET fields == ExportForML(t, clock)
    IN <<ValueOf(fields, "ktp_avg_keystroke_interval_ms"),
         ValueOf(fields, "ktp_keystroke_variance"),
         ValueOf(fields, "ktp_total_entry_time_ms")>>
TrackedField == "ktp"

\* C27: recording a keystroke event of any kind for a fieldId other than the
\* tracked field never changes the exported ktp_avg_keystroke_interval_ms,
\* ktp_keystroke_variance or ktp_total_entry_time_ms.
C27_OtherFieldIgnored ==
    [][(/\ Len(tracker'.ktpKeystrokeData) = Len(tracker.ktpKeystrokeData) + 1
        /\ tracker'.ktpKeystrokeData[Len(tracker'.ktpKeystrokeData)].fieldId
              # TrackedField)
       => KtpDynamicsOf(tracker', now) = KtpDynamicsOf(tracker, now)]_vars

\* C29: a hover that has started and not ended adds nothing to the
\* hesitation time: the accumulated time changes only in endSeatHover, and
\* the exported seat_hesitation_time_ms is the accumulated time, however far
\* the clock has advanced since the hover began.
C29_OpenHoverAddsNothing ==
    [][/\ tracker'.seatHesitationTime # tracker.seatHesitationTime
            => endSeatHover
       /\ exported' # NoExport
            => ValueOf(exported', "seat_hesitation_time_ms")
                  = Num(tracker.seatHesitationTime)]_vars

C29_Witness ==
    /\ Exported
    /\ Truthy(tracker.seatHoverStartTime)
    /\ now > tracker.seatHoverStartTime
    /\ tracker.seatHesitationTime > 0
    /\ Field("seat_hesitation_time_ms") = Num(tracker.seatHesitationTime)

\* C30: when scoring calls overlap, the response of an older call that
\* arrives after the response of a newer call leaves the gate state and the
\* score as the newer call set them.
C30_NewestVerdictWins ==
    [][(Settled /\ lastCall'.id < lastCall.id)
       => /\ aiSecurityStatus' = aiSecurityStatus
          /\ securityScore' = securityScore]_vars

\* -------------------------------------------- properties of ingestion
Range(seq) == {seq[i] : i \in 1..Len(seq)}
Handled == Len(responses') # Len(responses)
LastResponse == responses[Len(responses)]
LastRow == store[Len(store)]
SentNames == {request.fields[i][1] : i \in 1..Len(request.fields)}

\* C21: the behavior-feature object sent to the scoring boundary has the
\* same field names as the canonical Feature Vector produced by exportForML
\* and stored by the ingestion endpoint.
C21_SameFieldNames ==
    \A c \in inflight :
        /\ DOMAIN c.payload \subseteq PayloadKeys
        /\ PayloadKeys = Range(InsertColumns)
        /\ PayloadKeys = {ExportForML(tracker, now)[i][1] : i \in 1..10}

\* C22: for a request that carries a user_id, the inserted record has, for
\* each canonical field missing from the request, 0 if the field is
\* session_time_ms, seat_hesitation_time_ms, ktp_paste_detected,
\* field_edit_count or total_clicks, and null if it is
\* ktp_avg_keystroke_interval_ms, ktp_keystroke_variance,
\* ktp_total_entry_time_ms, mouse_total_distance or mouse_smoothness.
C22_DefaultsForMissing ==
    (responses # <<>> /\ LastResponse.success)
    => /\ store # <<>>
       /\ \A name \in {"session_time_ms", "seat_hesitation_time_ms",
                       "ktp_paste_detected", "field_edit_count",
                       "total_clicks"} \ SentNames :
              ValueOf(LastRow.columns, name) = Num(0)
       /\ \A name \in {"ktp_avg_keystroke_interval_ms",
                       "ktp_keystroke_variance", "ktp_total_entry_time_ms",
                       "mouse_total_distance", "mouse_smoothness"}
                      \ SentNames :
              ValueOf(LastRow.columns, name) = JSNull

C22_Witness ==
    /\ responses # <<>>
    /\ LastResponse.success
    /\ SentNames = {"total_clicks"}
    /\ ValueOf(LastRow.columns, "session_time_ms") = Num(0)
    /\ ValueOf(LastRow.columns, "mouse_smoothness") = JSNull
    /\ ValueOf(LastRow.columns, "total_clicks") = SentValue

\* C23: every request ends with exactly one response, whose success flag is
\* true exactly when one record was appended; a missing user_id is answered
\* 400 and an insert error or an exception 500, all with success false and
\* the store unchanged.
C23_OneResponsePerRequest ==
    [][(request' # request \/ store' # store \/ Handled)
       => LET r == responses'[Len(responses')]
          IN /\ Len(responses') = Len(responses) + 1
             /\ SubSeq(responses', 1, Len(responses)) = responses
             /\ r.success <=> (/\ Len(store') = Len(store) + 1
                               /\ SubSeq(store', 1, Len(store)) = store)
             /\ ~r.success => (store' = store /\ r.status \in {400, 500})
             /\ (~request'.parses) => r.status = 500
             /\ (request'.parses /\ (request'.user_id = <<>>
                                     \/ request'.user_id = <<"">>))
                   => (r.status = 400 /\ ~r.success /\ store' = store)]_vars

C23_Witness ==
    /\ Len(responses) = 2
    /\ responses[1].status = 400
    /\ responses[2].success
    /\ Len(store) = 1

\* C28: posting the exported feature vector with a user_id stores a record
\* in which every canonical field equals the exported value, also where the
\* exported value is the default 0.
C28_RoundTrip ==
    [][(/\ Handled
        /\ exported # NoExport
        /\ request'.fields = JsonBody(exported)
        /\ responses'[Len(responses')].success)
       => \A i \in 1..Len(exported) :
              ValueOf(store'[Len(store')].columns, exported[i][1])
                 = exported[i][2]]_vars

C32_FailureLeavesGate ==
    [][Failed
       => /\ aiSecurityStatus' = aiSecurityStatus
          /\ securityScore' = securityScore]_vars

\* C33: a successful response with prediction 'bot' never sets the gate to
\* passed and one with prediction 'human' never sets it to flagged, for
\* every confidence it carries.
C33_LabelNotContradicted ==
    [][(Settled /\ mounted /\ lastCall'.outcome = "ok")
       => /\ lastCall'.result.prediction = "bot"
               => aiSecurityStatus' # "passed"
          /\ lastCall'.result.prediction = "human"
               => aiSecurityStatus' # "flagged"]_vars
====
